---- MODULE Spec2Model ----
(***************************************************************************)
(* Model of the cookiecutter template's executable parts:                  *)
(*   hooks/post_gen_project.py   main(): run `pre-commit install           *)
(*                               --install-hooks`, report, set exit status *)
(*   {{cookiecutter.project_slug}}/main.py    greet(name)                  *)
(*   {{cookiecutter.project_slug}}/my_cli.py  hello(name)                  *)
(* Spec / FairSpec describe one run of the hook process; GreetSpec          *)
(* describes calls of greet() and hello() on bounded strings.              *)
(***************************************************************************)
EXTENDS Integers, Sequences, FiniteSets, TLC

VARIABLES
    pc,           \* position of the hook process in post_gen_project.py
    child,        \* the pre-commit subprocess: notstarted/running/done/nostart
    retcode,      \* exit status of the subprocess once it is done, as a set
    exc,          \* exception in flight, as a set of at most one record
    stdout,       \* lines written by print(), each the tuple of print's args
    stderr,       \* lines written by the interpreter (tracebacks)
    exitStatus,   \* exit status of the hook process, as a set ({} = running)
    exitVia,      \* how the process ended: none/return/sys.exit/unhandled
    invocations,  \* number of times check_call was entered
    gpc,          \* position of the greeting program
    name,         \* the argument of greet()/hello()
    returned,     \* values returned by greet() to a direct caller
    echoed        \* lines written by typer.echo()

hookVars == <<pc, child, retcode, exc, stdout, stderr, exitStatus, exitVia, invocations>>
greetVars == <<gpc, name, returned, echoed>>
vars == <<pc, child, retcode, exc, stdout, stderr, exitStatus, exitVia, invocations,
          gpc, name, returned, echoed>>

(* ---------------------------- bounds ---------------------------------- *)
\* largest exit status the subprocess is given
MaxRet == 20
\* largest signal number that kills the subprocess (returncode = -signal)
MaxSig == 5
\* longest generated name
MaxNameLen == 3

(* ------------------------ the hook: values ----------------------------- *)
\* returncodes Popen.wait() can hand back
RetCodes == (0 - MaxSig)..MaxRet

\* what Popen raises when the executable cannot be started
OSErrors == {"FileNotFoundError", "PermissionError"}

\* the argv of line 6
Cmd == <<"pre-commit", "install", "--install-hooks">>

\* the first argument of print on line 7 (the check-mark emoji written as OK)
SuccessText == "OK pre-commit hooks installed"

\* the first argument of print on line 9 (the cross-mark emoji written as FAIL)
FailureText == "FAIL pre-commit install failed:"

\* the exception check_call raises on a non-zero returncode
CalledProcessError(rc, cmd) ==
    [type |-> "CalledProcessError", returncode |-> rc, cmd |-> cmd]

\* the exception Popen raises when the program cannot be executed
OSErrorExc(kind) == [type |-> kind, returncode |-> 0, cmd |-> Cmd]

\* str(e) as print renders it: the command and how it ended
ExcStr(e) ==
    IF e.type = "CalledProcessError"
    THEN IF e.returncode < 0
         THEN [cmd |-> e.cmd, how |-> "died with signal", n |-> 0 - e.returncode]
         ELSE [cmd |-> e.cmd, how |-> "returned non-zero exit status", n |-> e.returncode]
    ELSE [cmd |-> e.cmd, how |-> e.type, n |-> 0]

\* the except clause of line 8
Handles(e) == e.type = "CalledProcessError"

\* variant: the handler exits with status 0
FailureExitCodeZero(e) == 0

\* variant: the handler passes the tool's own status on
FailureExitCodePropagated(e) == e.returncode % 256

\* the argument of sys.exit on line 10
FailureExitCode(e) == 1

TheExc == CHOOSE e \in exc : TRUE
TheRet == CHOOSE r \in retcode : TRUE

(* ------------------------ the hook: actions ---------------------------- *)
HookInit ==
    /\ pc = "line6"
    /\ child = "notstarted"
    /\ retcode = {}
    /\ exc = {}
    /\ stdout = <<>>
    /\ stderr = <<>>
    /\ exitStatus = {}
    /\ exitVia = "none"
    /\ invocations = 0

\* line 6, first half: check_call starts the subprocess, or Popen raises
CheckCall ==
    /\ pc = "line6"
    /\ invocations' = invocations + 1
    /\ \/ /\ child' = "running"
          /\ pc' = "wait"
          /\ UNCHANGED exc
       \/ \E kind \in OSErrors :
            /\ child' = "nostart"
            /\ exc' = {OSErrorExc(kind)}
            /\ pc' = "except"
    /\ UNCHANGED <<retcode, stdout, stderr, exitStatus, exitVia>>
    /\ UNCHANGED greetVars

\* the external tool ends with some status (environment step)
ChildExit ==
    /\ child = "running"
    /\ \E rc \in RetCodes :
         retcode' = {rc}
    /\ child' = "done"
    /\ UNCHANGED <<pc, exc, stdout, stderr, exitStatus, exitVia, invocations>>
    /\ UNCHANGED greetVars

\* variant: check_call given a timeout, which expires while the tool runs
CheckCallReturnTimeout ==
    /\ pc = "wait"
    /\ child \in {"running", "done"}
    /\ IF child = "running"
       THEN /\ exc' = {[type |-> "TimeoutExpired", returncode |-> 0, cmd |-> Cmd]}
            /\ pc' = "except"
       ELSE IF TheRet = 0
            THEN /\ pc' = "line7"
                 /\ UNCHANGED exc
            ELSE /\ exc' = {CalledProcessError(TheRet, Cmd)}
                 /\ pc' = "except"
    /\ UNCHANGED <<child, retcode, stdout, stderr, exitStatus, exitVia, invocations>>
    /\ UNCHANGED greetVars

\* line 6, second half: wait() returned; check_call returns 0 or raises
CheckCallReturn ==
    /\ pc = "wait"
    /\ child = "done"
    /\ IF TheRet = 0
       THEN /\ pc' = "line7"
            /\ UNCHANGED exc
       ELSE /\ exc' = {CalledProcessError(TheRet, Cmd)}
            /\ pc' = "except"
    /\ UNCHANGED <<child, retcode, stdout, stderr, exitStatus, exitVia, invocations>>
    /\ UNCHANGED greetVars

\* variant: the success line is not printed
PrintSuccessSilent ==
    /\ pc = "line7"
    /\ pc' = "return"
    /\ UNCHANGED <<child, retcode, exc, stdout, stderr, exitStatus, exitVia, invocations>>
    /\ UNCHANGED greetVars

\* line 7
PrintSuccess ==
    /\ pc = "line7"
    /\ stdout' = Append(stdout, <<SuccessText>>)
    /\ pc' = "return"
    /\ UNCHANGED <<child, retcode, exc, stderr, exitStatus, exitVia, invocations>>
    /\ UNCHANGED greetVars

\* line 8: the exception is matched against the only except clause
ExceptMatch ==
    /\ pc = "except"
    /\ pc' = IF Handles(TheExc) THEN "line9" ELSE "propagate"
    /\ UNCHANGED <<child, retcode, exc, stdout, stderr, exitStatus, exitVia, invocations>>
    /\ UNCHANGED greetVars

\* variant: the failure line is printed without the exception
PrintFailureNoDetail ==
    /\ pc = "line9"
    /\ stdout' = Append(stdout, <<FailureText>>)
    /\ pc' = "line10"
    /\ UNCHANGED <<child, retcode, exc, stderr, exitStatus, exitVia, invocations>>
    /\ UNCHANGED greetVars

\* line 9
PrintFailure ==
    /\ pc = "line9"
    /\ stdout' = Append(stdout, <<FailureText, ExcStr(TheExc)>>)
    /\ pc' = "line10"
    /\ UNCHANGED <<child, retcode, exc, stderr, exitStatus, exitVia, invocations>>
    /\ UNCHANGED greetVars

\* variant: the handler tries the installation a second time before giving up
SysExitRetry ==
    /\ pc = "line10"
    /\ IF invocations < 2
       THEN /\ pc' = "line6"
            /\ child' = "notstarted"
            /\ retcode' = {}
            /\ exc' = {}
            /\ UNCHANGED <<exitStatus, exitVia>>
       ELSE /\ exitStatus' = {FailureExitCode(TheExc)}
            /\ exitVia' = "sys.exit"
            /\ pc' = "exited"
            /\ UNCHANGED <<child, retcode, exc>>
    /\ UNCHANGED <<stdout, stderr, invocations>>
    /\ UNCHANGED greetVars

\* line 10
SysExit ==
    /\ pc = "line10"
    /\ exitStatus' = {FailureExitCode(TheExc)}
    /\ exitVia' = "sys.exit"
    /\ pc' = "exited"
    /\ UNCHANGED <<child, retcode, exc, stdout, stderr, invocations>>
    /\ UNCHANGED greetVars

\* line 13: main() returned, the script ends
Return ==
    /\ pc = "return"
    /\ exitStatus' = {0}
    /\ exitVia' = "return"
    /\ pc' = "exited"
    /\ UNCHANGED <<child, retcode, exc, stdout, stderr, invocations>>
    /\ UNCHANGED greetVars

\* an exception no clause handles leaves main(): traceback, status 1
Unhandled ==
    /\ pc = "propagate"
    /\ stderr' = Append(stderr, <<"Traceback", ExcStr(TheExc)>>)
    /\ exitStatus' = {1}
    /\ exitVia' = "unhandled"
    /\ pc' = "exited"
    /\ UNCHANGED <<child, retcode, exc, stdout, invocations>>
    /\ UNCHANGED greetVars

(* ------------------------ greet and hello ------------------------------ *)
\* the characters names are built from
Alphabet == {"D", " ", "!"}

RECURSIVE StringsUpTo(_)
StringsUpTo(n) ==
    IF n = 0 THEN {<<>>}
    ELSE LET shorter == StringsUpTo(n - 1)
         IN shorter \cup {Append(s, c) : s \in shorter, c \in Alphabet}

\* the argument of the repository's test
Developer == <<"D", "e", "v", "e", "l", "o", "p", "e", "r">>

Names == StringsUpTo(MaxNameLen) \cup {Developer}

\* format(value, "") of a str
Format(value) == value

\* an f-string: literal parts copied, replacement fields formatted
RECURSIVE FString(_)
FString(parts) ==
    IF parts = <<>> THEN <<>>
    ELSE LET p == Head(parts)
         IN (IF p.kind = "lit" THEN p.text ELSE Format(p.value)) \o FString(Tail(parts))

\* variant: the closing exclamation mark is missing
greetNoBang(n) ==
    FString(<< [kind |-> "lit", text |-> <<"H", "e", "l", "l", "o", ",", " ">>],
               [kind |-> "field", value |-> n] >>)

\* main.py line 7: f"Hello, {name}!"
greet(n) ==
    FString(<< [kind |-> "lit", text |-> <<"H", "e", "l", "l", "o", ",", " ">>],
               [kind |-> "field", value |-> n],
               [kind |-> "lit", text |-> <<"!">>] >>)

GreetProgInit ==
    /\ gpc = "ready"
    /\ name \in Names
    /\ returned = <<>>
    /\ echoed = <<>>

\* a direct call of greet(name), as in tests/test_main.py
Greet ==
    /\ gpc = "ready"
    /\ returned' = Append(returned, greet(name))
    /\ gpc' = "greeted"
    /\ UNCHANGED <<name, echoed>>
    /\ UNCHANGED hookVars

\* my_cli.py line 12: typer.echo(greet(name))
hello ==
    /\ gpc \in {"ready", "greeted"}
    /\ echoed' = Append(echoed, greet(name))
    /\ gpc' = "echoed"
    /\ UNCHANGED <<name, returned>>
    /\ UNCHANGED hookVars

(* ------------------------ specifications ------------------------------- *)
GreetIdle ==
    /\ gpc = "unused"
    /\ name = <<>>
    /\ returned = <<>>
    /\ echoed = <<>>

HookIdle ==
    /\ pc = "unused"
    /\ child = "notstarted"
    /\ retcode = {}
    /\ exc = {}
    /\ stdout = <<>>
    /\ stderr = <<>>
    /\ exitStatus = {}
    /\ exitVia = "none"
    /\ invocations = 0

Init == HookInit /\ GreetIdle

HookStep ==
    \/ CheckCall
    \/ CheckCallReturn
    \/ PrintSuccess
    \/ ExceptMatch
    \/ PrintFailure
    \/ SysExit
    \/ Return
    \/ Unhandled

Next ==
    \/ CheckCall
    \/ ChildExit
    \/ CheckCallReturn
    \/ PrintSuccess
    \/ ExceptMatch
    \/ PrintFailure
    \/ SysExit
    \/ Return
    \/ Unhandled

Spec == Init /\ [][Next]_vars

\* the interpreter keeps executing the hook; nothing forces the child to end
FairSpec == Spec /\ WF_vars(HookStep)

GreetInit == GreetProgInit /\ HookIdle

GreetNext ==
    \/ Greet
    \/ hello

GreetSpec == GreetInit /\ [][GreetNext]_vars

(* ------------------------ properties ----------------------------------- *)
TypeOK ==
    /\ pc \in {"line6", "wait", "line7", "except", "line9", "line10",
               "return", "propagate", "exited", "unused"}
    /\ child \in {"notstarted", "running", "done", "nostart"}
    /\ retcode \subseteq RetCodes /\ Cardinality(retcode) <= 1
    /\ Cardinality(exc) <= 1
    /\ Len(stdout) <= 2 /\ Len(stderr) <= 1
    /\ exitStatus \subseteq 0..255 /\ Cardinality(exitStatus) <= 1
    /\ exitVia \in {"none", "return", "sys.exit", "unhandled"}
    /\ invocations \in Nat

\* the tool ran and ended with status 0
InstallSucceeded == child = "done" /\ retcode = {0}

\* the tool ran and ended with a non-zero status
ToolFailed == child = "done" /\ retcode # {} /\ retcode # {0}

\* the tool could not be executed at all
ToolMissing == child = "nostart"

\* the installation call failed, either way
InstallFailed == ToolFailed \/ ToolMissing

SuccessPrinted == \E i \in 1..Len(stdout) : stdout[i][1] = SuccessText
FailurePrinted == \E i \in 1..Len(stdout) : stdout[i][1] = FailureText
Exited == pc = "exited"

\* C1: after a failed installation call (non-zero status, or the tool could
\* not be executed) the process never has exit status 0 and the success line
\* is never printed; after a successful call the failure line is never
\* printed; the two lines are never both printed.
C1_FailureNeverReportsSuccess ==
    /\ InstallFailed => (0 \notin exitStatus /\ ~SuccessPrinted)
    /\ InstallSucceeded => ~FailurePrinted
    /\ ~(SuccessPrinted /\ FailurePrinted)

C1_Witness == Exited /\ ToolFailed /\ FailurePrinted /\ exitStatus = {1}

\* C2: when the tool is absent from the search path, main() prints the
\* failure line and ends the process with a non-zero status through the
\* handler's sys.exit, not through an exception escaping main().
C2_MissingToolHandledLikeFailure ==
    /\ (ToolMissing /\ Exited) =>
          (FailurePrinted /\ 0 \notin exitStatus /\ exitVia = "sys.exit")
    /\ ToolMissing => (pc # "propagate" /\ stderr = <<>>)

\* C3: a finished run ends in exactly one of: one success line and status 0,
\* or one failure line and a non-zero status.
C3_ExactlyOneOfTwoOutcomes ==
    Exited =>
        \/ /\ Len(stdout) = 1 /\ stdout[1][1] = SuccessText
           /\ exitStatus = {0}
        \/ /\ Len(stdout) = 1 /\ stdout[1][1] = FailureText
           /\ exitStatus # {} /\ 0 \notin exitStatus

\* C4: when the tool ends with status 0 the success line is printed, and only
\* once the tool has returned; main() returns without sys.exit and the
\* process exits with status 0.
C4_SuccessPath ==
    /\ (InstallSucceeded /\ Exited) =>
          (stdout = << <<SuccessText>> >> /\ exitStatus = {0} /\ exitVia = "return")
    /\ SuccessPrinted => (child = "done" /\ retcode = {0})
    /\ (InstallSucceeded /\ pc = "return") => SuccessPrinted

C4_Witness == InstallSucceeded /\ Exited /\ SuccessPrinted

\* C5: when the tool ends with a non-zero status, the failure line carrying
\* the command and its exit status (or killing signal) is printed, and then
\* the process ends with a non-zero status.
C5_FailurePath ==
    /\ (ToolFailed /\ pc \in {"line10", "exited"}) =>
          /\ Len(stdout) = 1
          /\ Len(stdout[1]) = 2
          /\ stdout[1][1] = FailureText
          /\ stdout[1][2].cmd = Cmd
          /\ \A rc \in retcode :
                /\ rc > 0 => (stdout[1][2].n = rc
                              /\ stdout[1][2].how = "returned non-zero exit status")
                /\ rc < 0 => (stdout[1][2].n = 0 - rc
                              /\ stdout[1][2].how = "died with signal")
    /\ (ToolFailed /\ Exited) => (exitStatus # {} /\ 0 \notin exitStatus)

C5_Witness ==
    /\ ToolFailed /\ Exited
    /\ retcode = {3}
    /\ stdout[1][2].n = 3

\* C6: the exit status of the hook is 0 or 1; it is 0 exactly when the tool
\* ended with status 0, and 1 for every failure, whatever the tool's status
\* and also when the tool could not be executed.
C6_ExitStatusZeroOrOne ==
    /\ exitStatus \subseteq {0, 1}
    /\ Exited => /\ exitStatus # {}
                 /\ (exitStatus = {0}) <=> InstallSucceeded
                 /\ InstallFailed => exitStatus = {1}

C6_Witness == Exited /\ ToolMissing /\ exitVia = "unhandled" /\ exitStatus = {1}

\* C7: greet(name) is "Hello, " followed by name unchanged followed by "!",
\* and hello(name) writes exactly that string.
C7_GreetConcatenation ==
    LET expected == <<"H", "e", "l", "l", "o", ",", " ">> \o name \o <<"!">>
    IN /\ \A i \in 1..Len(returned) : returned[i] = expected
       /\ \A i \in 1..Len(echoed) : echoed[i] = expected
       /\ gpc = "greeted" => Len(returned) = 1
       /\ gpc = "echoed" => Len(echoed) = 1

C7_Witness ==
    /\ gpc = "echoed"
    /\ name = Developer
    /\ returned = << <<"H", "e", "l", "l", "o", ",", " ",
                       "D", "e", "v", "e", "l", "o", "p", "e", "r", "!">> >>
    /\ echoed = returned

\* C8: whenever the process has ended with a non-zero status after a failed
\* installation, the failure line has been printed.
C8_NoSilentFailure ==
    (Exited /\ InstallFailed /\ 0 \notin exitStatus) => FailurePrinted

\* C9: the external command is invoked exactly once per run: at most once at
\* any time, once in every finished run, and never again after a failure.
C9_InvokedExactlyOnce ==
    /\ invocations <= 1
    /\ pc # "line6" => invocations = 1
    /\ InstallFailed => pc # "line6"

C9_Witness == Exited /\ InstallFailed /\ invocations = 1

====
